---- MODULE Spec2Model ----
(***************************************************************************)
(* Library catalog data-access layer: the four variants of the repository  *)
(*   "sql"     src/3a/ej3a1.py  raw SQL on an in-memory SQLite database    *)
(*   "sqlfile" src/3a/ej3a2.py  raw SQL on a SQLite file built from a dump *)
(*   "doc"     src/3a/ej3a4.py  PyMongo document collections               *)
(*   "http"    src/3b/ej3b2.py  Flask + SQLAlchemy REST API                *)
(* One catalog (autores, libros) is modelled; the variant that owns it is  *)
(* chosen when the run starts and decides which functions may act on it.   *)
(*                                                                         *)
(* Values.  A title is a sequence of text fragments (the string is their   *)
(* concatenation).  An optional value (Python None / SQL NULL) is a        *)
(* sequence of length 0 or 1.  Results and exceptions are strings.         *)
(***************************************************************************)
EXTENDS Integers, Sequences, FiniteSets, TLC

VARIABLES variante, autores, libros, seq, nAct, pre, last, guion, esquema

vars == <<variante, autores, libros, seq, nAct, pre, last, guion, esquema>>

---------------------------------------------------------------------------
(* Bounds of the exploration *)

\* longest title, in fragments, passed to an update
MaxTitulo == 2
\* most author rows ever inserted in one run
MaxAutores == 2
\* most book rows ever inserted in one run
MaxLibros == 2
\* most update calls in one run
MaxAct == 1
\* longest list given to an insert function
MaxLote == 2

---------------------------------------------------------------------------
(* Input domains *)

NONE == <<>>
Some(x) == <<x>>
Opt(S) == {NONE} \cup {Some(x) : x \in S}

Comilla == "'"
\* fragments a title is made of: a letter, a single quote, the SQL comment mark
Alfabeto == {"a", Comilla, "--"}

Titulos(n) == UNION {[1..k -> Alfabeto] : k \in 0..n}

\* titles given to the insert functions
TitulosBase == {<<"a">>, <<"--">>}
\* years given to the insert functions
AniosBase == {Some(1)}
\* years given to the update functions
Anios == {2}
Nombres == {"A", "B"}
\* author references given to the insert functions
RefsAutor == {1, 2}

Variantes == {"sql", "sqlfile", "doc", "http"}

---------------------------------------------------------------------------
(* Tables: sequences of rows in insertion order *)

Ids(tabla) == {tabla[i].id : i \in 1..Len(tabla)}
Existe(tabla, id) == id \in Ids(tabla)
Fila(tabla, id) == tabla[CHOOSE i \in 1..Len(tabla) : tabla[i].id = id]
Quitar(tabla, S) == SelectSeq(tabla, LAMBDA f : f.id \notin S)
Max(S) == IF S = {} THEN 0 ELSE CHOOSE m \in S : \A x \in S : x <= m

---------------------------------------------------------------------------
(* Ordering of rows.  Text compares byte by byte; a key is the sequence of *)
(* the ranks of the fragments of a text, compared lexicographically.       *)

\* rank of a fragment among the texts of the model, by its first bytes
Rango(x) ==
    CASE x = Comilla -> 1
      [] x = "--" -> 2
      [] x = "A" -> 3
      [] x = "B" -> 4
      [] x = "Cien anos de soledad" -> 5
      [] x = "El Aleph" -> 6
      [] x = "El Senor de los Anillos" -> 7
      [] x = "El amor en los tiempos del colera" -> 8
      [] x = "El hobbit" -> 9
      [] x = "Ficciones" -> 10
      [] x = "Gabriel Garcia Marquez" -> 11
      [] x = "Isabel Allende" -> 12
      [] x = "J.R.R. Tolkien" -> 13
      [] x = "Jorge Luis Borges" -> 14
      [] x = "La casa de los espiritus" -> 15
      [] x = "Paula" -> 16
      [] x = "Titulo actualizado" -> 17
      [] x = "a" -> 18

ClaveTexto(t) == [i \in 1..Len(t) |-> Rango(t[i])]
\* null sorts before every number
ClaveOpt(v) == IF v = NONE THEN <<0>> ELSE <<1, v[1]>>

MenorLex(k1, k2) ==
    \E i \in 1..(Len(k1) + 1) :
        /\ i <= Len(k2)
        /\ \A j \in 1..(i - 1) : k1[j] = k2[j]
        /\ (i = Len(k1) + 1 \/ k1[i] < k2[i])

\* the rows in ascending order of their keys, rows of equal key in the
\* order they came
Ordenar(filas, claves) ==
    LET n == Len(filas)
        antes(j, i) == MenorLex(claves[j], claves[i]) \/ (claves[j] = claves[i] /\ j < i)
        pos(i) == Cardinality({j \in 1..n : antes(j, i)}) + 1
    IN  [p \in 1..n |-> filas[CHOOSE i \in 1..n : pos(i) = p]]

\* a table scan: the rows in rowid order
PorId(tabla) == Ordenar(tabla, [i \in 1..Len(tabla) |-> <<tabla[i].id>>])

---------------------------------------------------------------------------
(* SQLite: the text of an UPDATE statement and what the engine does with   *)
(* it.  A statement is a sequence of fragments: the fixed pieces of text   *)
(* the code writes, the quote characters it writes, and the fragments of   *)
(* the values it interpolates.                                             *)

Columnas == {"titulo = ", "anio = ", "autor_id = "}

Tok(k, v) == [k |-> k, v |-> v]

\* The tokenizer.  Inside a string literal two quotes in a row are one
\* quote of the value and a single quote ends the literal; outside, a quote
\* opens a literal, "--" starts a comment that runs to the end of the text,
\* a letter is an identifier, and anything else is the fixed text itself.
RECURSIVE Tokens(_, _, _, _)
Tokens(s, i, dentro, cur) ==
    IF i > Len(s)
    THEN IF dentro THEN <<Tok("UNTERMINATED", <<>>)>> ELSE <<>>
    ELSE IF dentro
    THEN IF s[i] = Comilla
         THEN IF i + 1 <= Len(s) /\ s[i + 1] = Comilla
              THEN Tokens(s, i + 2, TRUE, Append(cur, Comilla))
              ELSE <<Tok("STR", cur)>> \o Tokens(s, i + 1, FALSE, <<>>)
         ELSE Tokens(s, i + 1, TRUE, Append(cur, s[i]))
    ELSE IF s[i] = Comilla THEN Tokens(s, i + 1, TRUE, <<>>)
    ELSE IF s[i] = "--" THEN <<Tok("COMMENT", <<>>)>>
    ELSE IF s[i] = "a" THEN <<Tok("ID", <<>>)>> \o Tokens(s, i + 1, FALSE, <<>>)
    ELSE <<Tok(s[i], <<>>)>> \o Tokens(s, i + 1, FALSE, <<>>)

ErrorSql == [ok |-> FALSE, asigs |-> <<>>, where |-> NONE]

\* The parser of  col = 'v' {, col = 'v'} [WHERE libros.id = 'v']  from
\* token i on; a comment ends the statement.
RECURSIVE ParseAsigs(_, _, _)
ParseAsigs(toks, i, acc) ==
    IF i + 1 > Len(toks) \/ toks[i].k \notin Columnas \/ toks[i + 1].k # "STR"
    THEN ErrorSql
    ELSE LET acc2 == Append(acc, [col |-> toks[i].k, val |-> toks[i + 1].v])
             j == i + 2
         IN  IF j > Len(toks) \/ toks[j].k = "COMMENT"
             THEN [ok |-> TRUE, asigs |-> acc2, where |-> NONE]
             ELSE IF toks[j].k = ", " THEN ParseAsigs(toks, j + 1, acc2)
             ELSE IF /\ toks[j].k = "WHERE libros.id = "
                     /\ j + 1 = Len(toks)
                     /\ toks[j + 1].k = "STR"
             THEN [ok |-> TRUE, asigs |-> acc2, where |-> Some(toks[j + 1].v)]
             ELSE ErrorSql

ParseUpdate(s) ==
    LET toks == Tokens(s, 1, FALSE, <<>>)
    IN  IF Len(toks) = 0 \/ toks[1].k # "UPDATE libros SET " THEN ErrorSql
        ELSE ParseAsigs(toks, 2, <<>>)

\* numbers whose decimal text the engine converts back (INTEGER affinity)
Numeros == (0..(MaxAutores + MaxLibros + 4)) \cup {2023}
EsNumero(v) == \E n \in Numeros : v = <<ToString(n)>>
AInt(v) == CHOOSE n \in Numeros : v = <<ToString(n)>>

\* one SET assignment applied to a row, with the affinity of its column
Asignar(f, a) ==
    IF a.col = "titulo = " THEN [f EXCEPT !.titulo = a.val]
    ELSE IF a.col = "anio = " /\ EsNumero(a.val) THEN [f EXCEPT !.anio = Some(AInt(a.val))]
    ELSE IF a.col = "autor_id = " /\ EsNumero(a.val) THEN [f EXCEPT !.autor_id = AInt(a.val)]
    ELSE f

RECURSIVE AsignarTodas(_, _, _)
AsignarTodas(f, asigs, i) ==
    IF i > Len(asigs) THEN f ELSE AsignarTodas(Asignar(f, asigs[i]), asigs, i + 1)

\* cursor.execute(consulta) for an UPDATE of table libros
EjecutarUpdate(tabla, s) ==
    LET p == ParseUpdate(s)
        toca(f) == \/ p.where = NONE
                   \/ EsNumero(p.where[1]) /\ AInt(p.where[1]) = f.id
    IN  IF ~p.ok
        THEN [error |-> TRUE, libros |-> tabla, rowcount |-> -1]
        ELSE [error |-> FALSE,
              libros |-> [i \in 1..Len(tabla) |->
                             IF toca(tabla[i])
                             THEN AsignarTodas(tabla[i], p.asigs, 1)
                             ELSE tabla[i]],
              rowcount |-> Cardinality({i \in 1..Len(tabla) : toca(tabla[i])})]

\* f"col = '{valor}'" : the fragments of one SET part
ParteTexto(col, t) == <<col, Comilla>> \o t \o <<Comilla>>
ParteNumero(col, n) == <<col, Comilla, ToString(n), Comilla>>

\* ", ".join(var_updates)
RECURSIVE Join(_, _)
Join(partes, i) ==
    IF i > Len(partes) THEN <<>>
    ELSE IF i = Len(partes) THEN partes[i]
    ELSE partes[i] \o <<", ">> \o Join(partes, i + 1)

\* the statement the update functions build: the SET parts only for the
\* values that are not None, and the WHERE only when there is a SET part
ConsultaUpdate(id, titulo, anio, autor) ==
    LET var_updates ==
            (IF titulo # NONE THEN <<ParteTexto("titulo = ", titulo[1])>> ELSE <<>>)
         \o (IF anio # NONE THEN <<ParteNumero("anio = ", anio[1])>> ELSE <<>>)
         \o (IF autor # NONE THEN <<ParteNumero("autor_id = ", autor[1])>> ELSE <<>>)
    IN  <<"UPDATE libros SET ">>
        \o (IF var_updates # <<>>
            THEN Join(var_updates, 1) \o <<"WHERE libros.id = ", Comilla, ToString(id), Comilla>>
            ELSE <<>>)

---------------------------------------------------------------------------
(* What a call leaves behind: the catalog, the identity counters, the      *)
(* value returned (as Python prints it), the exception that left the       *)
(* function ("" when none did), the identities it returned and the rows   *)
(* it returned, printed or sent as the response body.                      *)

Sale(a, l, sq, res, raised, ids) ==
    [autores |-> a, libros |-> l, seq |-> sq, res |-> res, raised |-> raised, ids |-> ids,
     filas |-> <<>>]

\* the same for a call that leaves rows
SaleFilas(a, l, sq, res, ids, filas) ==
    [autores |-> a, libros |-> l, seq |-> sq, res |-> res, raised |-> "", ids |-> ids,
     filas |-> filas]

\* the same for a call that acts on the schema: esquema is the set of the
\* tables, collections and indexes that exist
SaleEsquema(e, a, l, sq, res, raised) ==
    [esquema |-> e, autores |-> a, libros |-> l, seq |-> sq, res |-> res,
     raised |-> raised, ids |-> <<>>, filas |-> <<>>]

Autor(id, nombre) == [id |-> id, nombre |-> nombre]
Libro(id, titulo, anio, autor_id) ==
    [id |-> id, titulo |-> titulo, anio |-> anio, autor_id |-> autor_id]

Bool(b) == IF b THEN "True" ELSE "False"

---------------------------------------------------------------------------
(* src/3a/ej3a1.py : raw SQL, tables with INTEGER PRIMARY KEY              *)
(* AUTOINCREMENT (the next id is one more than the largest ever issued)    *)

\* the two tables of crear_tablas
TablasSql == {"autores", "libros"}

\* CREATE TABLE without IF NOT EXISTS
crear_tablas_sin_if(e, a, l, sq) ==
    IF e \cap TablasSql # {}
    THEN SaleEsquema(e, a, l, sq, "", "OperationalError")
    ELSE SaleEsquema(e \cup TablasSql, a, l, sq, "None", "")

\* CREATE TABLE IF NOT EXISTS autores, libros; commit
crear_tablas(e, a, l, sq) ==
    SaleEsquema(e \cup TablasSql, a, l, sq, "None", "")

insertar_autores_sql(a, l, sq, nombres) ==
    LET n == Len(nombres)
        nuevas == [i \in 1..n |-> Autor(sq.autores + i, nombres[i])]
    IN  Sale(a \o nuevas, l, [sq EXCEPT !.autores = @ + n], "None", "", <<>>)

insertar_libros_sql(a, l, sq, entradas) ==
    LET n == Len(entradas)
        nuevas == [i \in 1..n |->
                      Libro(sq.libros + i, entradas[i][1], entradas[i][2], entradas[i][3])]
    IN  Sale(a, l \o nuevas, [sq EXCEPT !.libros = @ + n], "None", "", <<>>)

actualizar_libro_sql(a, l, sq, id_libro, nuevo_titulo, nuevo_anio) ==
    LET r == EjecutarUpdate(l, ConsultaUpdate(id_libro, nuevo_titulo, nuevo_anio, NONE))
    IN  IF r.error
        THEN Sale(a, l, sq, "", "OperationalError", <<>>)
        ELSE Sale(a, r.libros, sq, "None", "", <<>>)

\* the DELETE without its WHERE clause
eliminar_libro_sql_sin_where(a, l, sq, id_libro) ==
    Sale(a, Quitar(l, Ids(l)), sq, "None", "", <<>>)

eliminar_libro_sql(a, l, sq, id_libro) ==
    Sale(a, Quitar(l, {id_libro}), sq, "None", "", <<>>)

\* which statement of ejemplo_transaccion raises sqlite3.Error: one of the
\* statements inside the try block (or none), and whether the SELECT that
\* follows the try block does
FallasSql == {"", "insert_autor", "insert_libro"} \X BOOLEAN

ejemplo_transaccion_sql(a, l, sq, falla, fallaSelect) ==
    LET a1 == Append(a, Autor(sq.autores + 1, "J.R.R. Tolkien"))
        l1 == Append(l, Libro(sq.libros + 1, <<"El hobbit">>, Some(1937), 4))
        sq1 == [autores |-> sq.autores + 1, libros |-> sq.libros + 1]
        \* commit, or rollback in the except branch
        a2 == IF falla = "" THEN a1 ELSE a
        l2 == IF falla = "" THEN l1 ELSE l
        sq2 == IF falla = "" THEN sq1 ELSE sq
    IN  IF fallaSelect
        THEN Sale(a2, l2, sq2, "", "OperationalError", <<>>)
        ELSE Sale(a2, l2, sq2, "None", "", <<>>)

---------------------------------------------------------------------------
(* src/3a/ej3a2.py : raw SQL on the database built from test.sql           *)

\* cursor.rowcount returned in place of cursor.lastrowid
agregar_libro_file_rowcount(a, l, sq, titulo, anio, autor_id) ==
    Sale(a, Append(l, Libro(sq.libros + 1, titulo, anio, autor_id)),
         [sq EXCEPT !.libros = @ + 1], "id", "", <<1>>)

agregar_libro_file(a, l, sq, titulo, anio, autor_id) ==
    Sale(a, Append(l, Libro(sq.libros + 1, titulo, anio, autor_id)),
         [sq EXCEPT !.libros = @ + 1], "id", "", <<sq.libros + 1>>)

\* "if cursor.fetchone:" tests the bound method, which is always true, so
\* the statement is built and executed whether or not the book exists
actualizar_libro_file(a, l, sq, libro_id, nuevo_titulo, nuevo_anio, nuevo_autor_id) ==
    LET r == EjecutarUpdate(l, ConsultaUpdate(libro_id, nuevo_titulo, nuevo_anio, nuevo_autor_id))
    IN  IF r.error
        THEN Sale(a, l, sq, "", "OperationalError", <<>>)
        ELSE Sale(a, r.libros, sq, Bool(r.rowcount > 0), "", <<>>)

\* SELECT libros.autor_id, titulo, anio, autores.nombre FROM autores JOIN
\* libros: the first column is the author's id, not the book's
obtener_libros(a, l, sq) ==
    LET conAutor == SelectSeq(l, LAMBDA f : Existe(a, f.autor_id))
        orden == Ordenar(conAutor, [k \in 1..Len(conAutor) |-> <<conAutor[k].autor_id>>])
    IN  SaleFilas(a, l, sq, "list", <<>>,
                  [k \in 1..Len(orden) |->
                      [autor_id |-> orden[k].autor_id, titulo |-> orden[k].titulo,
                       anio |-> orden[k].anio, nombre |-> Fila(a, orden[k].autor_id).nombre]])

\* SELECT * FROM autores: the rows (id, nombre) in rowid order
obtener_autores(a, l, sq) ==
    SaleFilas(a, l, sq, "list", <<>>, PorId(a))

---------------------------------------------------------------------------
(* src/3a/ej3a4.py : MongoDB collections.  An ObjectId is modelled by the  *)
(* number of the counter that issued it; its string form wraps it.         *)

Str(oid) == [hex |-> oid]
ObjectId(s) == s.hex

\* the identities read back from the whole collection instead of inserted_ids
insertar_autores_doc_todos(a, l, sq, nombres) ==
    LET n == Len(nombres)
        nuevas == [i \in 1..n |-> Autor(sq.autores + i, nombres[i])]
    IN  Sale(a \o nuevas, l, [sq EXCEPT !.autores = @ + n], "ids", "",
             [i \in 1..Len(a \o nuevas) |-> Str((a \o nuevas)[i].id)])

\* the collections of crear_colecciones and the indexes it creates on them
\* (a collection comes to exist with its first index, and with it its _id_ index)
ColeccionesDoc ==
    {"autores", "autores._id_", "autores.nombre_1",
     "libros", "libros._id_", "libros.titulo_1", "libros.anio_1", "libros.autor_id_1"}

\* create_index asks for an index that already exists with the same keys
\* and options: nothing is done
crear_colecciones(e, a, l, sq) ==
    SaleEsquema(e \cup ColeccionesDoc, a, l, sq, "None", "")

insertar_autores_doc(a, l, sq, nombres) ==
    LET n == Len(nombres)
        nuevas == [i \in 1..n |-> Autor(sq.autores + i, nombres[i])]
    IN  Sale(a \o nuevas, l, [sq EXCEPT !.autores = @ + n], "ids", "",
             [i \in 1..n |-> Str(nuevas[i].id)])

insertar_libros_doc(a, l, sq, entradas) ==
    LET n == Len(entradas)
        nuevas == [i \in 1..n |->
                      Libro(sq.libros + i, entradas[i][1], entradas[i][2],
                            ObjectId(entradas[i][3]))]
    IN  Sale(a, l \o nuevas, [sq EXCEPT !.libros = @ + n], "ids", "",
             [i \in 1..n |-> Str(nuevas[i].id)])

\* update_one({'_id': ...}, {'$set': actualizacion}): modified_count counts
\* the matched document only when some field really changed
actualizar_libro_doc(a, l, sq, id_libro, nuevo_titulo, nuevo_anio) ==
    LET oid == ObjectId(id_libro)
        set(f) == [f EXCEPT !.titulo = IF nuevo_titulo # NONE THEN nuevo_titulo[1] ELSE @,
                            !.anio = IF nuevo_anio # NONE THEN nuevo_anio ELSE @]
        l1 == [i \in 1..Len(l) |-> IF l[i].id = oid THEN set(l[i]) ELSE l[i]]
        modified_count == Cardinality({i \in 1..Len(l) : l1[i] # l[i]})
    IN  IF nuevo_titulo = NONE /\ nuevo_anio = NONE
        THEN Sale(a, l, sq, "True", "", <<>>)
        ELSE Sale(a, l1, sq, Bool(modified_count > 0), "", <<>>)

\* the result taken from acknowledged instead of deleted_count
eliminar_libro_doc_acknowledged(a, l, sq, id_libro) ==
    Sale(a, Quitar(l, {ObjectId(id_libro)}), sq, "True", "", <<>>)

eliminar_libro_doc(a, l, sq, id_libro) ==
    LET oid == ObjectId(id_libro)
        deleted_count == Cardinality({i \in 1..Len(l) : l[i].id = oid})
    IN  Sale(a, Quitar(l, {oid}), sq, Bool(deleted_count > 0), "", <<>>)

\* the except branch without its "return False"
ejemplo_transaccion_doc_sin_return(a, l, sq, falla, comp) ==
    LET autor_id == sq.autores + 1
        a1 == Append(a, Autor(autor_id, "J.R.R. Tolkien"))
        sqa == [sq EXCEPT !.autores = @ + 1]
        b1 == Libro(sq.libros + 1, <<"El hobbit">>, Some(1937), autor_id)
        b2 == Libro(sq.libros + 2, <<"El Senor de los Anillos">>, Some(1954), autor_id)
        \* the catalog when the exception is caught
        l1 == IF falla = 3 THEN Append(l, b1) ELSE l
        sq1 == IF falla = 3 THEN [sqa EXCEPT !.libros = @ + 1] ELSE sqa
        sinAutor == Quitar(a1, {autor_id})
        sinLibros == SelectSeq(l1, LAMBDA f : f.autor_id # autor_id)
    IN  IF falla = 0
        THEN Sale(a1, l \o <<b1, b2>>, [sqa EXCEPT !.libros = @ + 2], "True", "", <<>>)
        ELSE IF falla = 1
        THEN Sale(a, l, sq, "None", "", <<>>)            \* autor_id not in locals()
        ELSE IF comp = 1
        THEN Sale(a1, l1, sq1, "None", "", <<>>)
        ELSE IF comp = 2
        THEN Sale(sinAutor, l1, sq1, "None", "", <<>>)
        ELSE Sale(sinAutor, sinLibros, sq1, "None", "", <<>>)

\* where ejemplo_transaccion's writes may fail:
\*   falla 0 nothing, 1 insert_one, 2 insert_many before its first document,
\*         3 insert_many after its first document (ordered bulk write)
\*   comp  0 nothing, 1 delete_one, 2 delete_many     (the clean-up)
FallasDoc == (0..3) \X (0..2)

ejemplo_transaccion_doc(a, l, sq, falla, comp) ==
    LET autor_id == sq.autores + 1
        a1 == Append(a, Autor(autor_id, "J.R.R. Tolkien"))
        sqa == [sq EXCEPT !.autores = @ + 1]
        b1 == Libro(sq.libros + 1, <<"El hobbit">>, Some(1937), autor_id)
        b2 == Libro(sq.libros + 2, <<"El Senor de los Anillos">>, Some(1954), autor_id)
        \* the catalog when the exception is caught
        l1 == IF falla = 3 THEN Append(l, b1) ELSE l
        sq1 == IF falla = 3 THEN [sqa EXCEPT !.libros = @ + 1] ELSE sqa
        sinAutor == Quitar(a1, {autor_id})
        sinLibros == SelectSeq(l1, LAMBDA f : f.autor_id # autor_id)
    IN  IF falla = 0
        THEN Sale(a1, l \o <<b1, b2>>, [sqa EXCEPT !.libros = @ + 2], "True", "", <<>>)
        ELSE IF falla = 1
        THEN Sale(a, l, sq, "False", "", <<>>)            \* autor_id not in locals()
        ELSE IF comp = 1
        THEN Sale(a1, l1, sq1, "False", "", <<>>)
        ELSE IF comp = 2
        THEN Sale(sinAutor, l1, sq1, "False", "", <<>>)
        ELSE Sale(sinAutor, sinLibros, sq1, "False", "", <<>>)

---------------------------------------------------------------------------
(* src/3b/ej3b2.py : Flask + SQLAlchemy; integer primary keys without      *)
(* AUTOINCREMENT (the next id is one more than the largest present)        *)

\* Author.to_dict and Book.to_dict: the JSON objects of the responses
Author_to_dict(x) == [id |-> x.id, name |-> x.nombre]
Book_to_dict(f) == [id |-> f.id, title |-> f.titulo, year |-> f.anio, author_id |-> f.autor_id]

\* the query written with order_by(Author.name)
get_authors_por_nombre(a, l, sq) ==
    LET orden == Ordenar(a, [i \in 1..Len(a) |-> <<Rango(a[i].nombre)>>])
    IN  SaleFilas(a, l, sq, "200", <<>>, [i \in 1..Len(a) |-> Author_to_dict(orden[i])])

get_authors(a, l, sq) ==
    SaleFilas(a, l, sq, "200", <<>>, [i \in 1..Len(a) |-> Author_to_dict(PorId(a)[i])])

add_author(a, l, sq, name) ==
    LET id == Max(Ids(a)) + 1
    IN  SaleFilas(Append(a, Autor(id, name)), l, sq, "201", <<id>>,
                  <<Author_to_dict(Autor(id, name))>>)

\* the list of books taken from Book.query.all() instead of author.books
get_author_todos(a, l, sq, author_id) ==
    LET suyos == PorId(l)
    IN  IF ~Existe(a, author_id)
        THEN Sale(a, l, sq, "404", "", <<>>)
        ELSE SaleFilas(a, l, sq, "200", <<>>,
                       <<[id |-> author_id, name |-> Fila(a, author_id).nombre,
                          books |-> [i \in 1..Len(suyos) |-> Book_to_dict(suyos[i])]]>>)

get_author(a, l, sq, author_id) ==
    LET suyos == PorId(SelectSeq(l, LAMBDA f : f.autor_id = author_id))
    IN  IF ~Existe(a, author_id)
        THEN Sale(a, l, sq, "404", "", <<>>)
        ELSE SaleFilas(a, l, sq, "200", <<>>,
                       <<[id |-> author_id, name |-> Fila(a, author_id).nombre,
                          books |-> [i \in 1..Len(suyos) |-> Book_to_dict(suyos[i])]]>>)

\* the endpoint without its get_or_404 on the author
add_book_sin_autor(a, l, sq, title, author_id, year) ==
    LET id == Max(Ids(l)) + 1
    IN  SaleFilas(a, Append(l, Libro(id, title, year, author_id)), sq, "201", <<id>>,
                  <<Book_to_dict(Libro(id, title, year, author_id))>>)

add_book(a, l, sq, title, author_id, year) ==
    LET id == Max(Ids(l)) + 1
    IN  IF ~Existe(a, author_id)
        THEN Sale(a, l, sq, "404", "", <<>>)
        ELSE SaleFilas(a, Append(l, Libro(id, title, year, author_id)), sq, "201", <<id>>,
                       <<Book_to_dict(Libro(id, title, year, author_id))>>)

\* to_dict reading the year under another key, so that it is always null
get_book_sin_year(a, l, sq, book_id) ==
    IF ~Existe(l, book_id)
    THEN Sale(a, l, sq, "404", "", <<>>)
    ELSE SaleFilas(a, l, sq, "200", <<>>,
                   <<[Book_to_dict(Fila(l, book_id)) EXCEPT !.year = NONE]>>)

get_book(a, l, sq, book_id) ==
    IF ~Existe(l, book_id)
    THEN Sale(a, l, sq, "404", "", <<>>)
    ELSE SaleFilas(a, l, sq, "200", <<>>, <<Book_to_dict(Fila(l, book_id))>>)

\* PUT /books/<id>: title and year are NONE when the key is not in the body;
\* a year that is in the body may itself be null
update_book(a, l, sq, book_id, title, year) ==
    LET set(f) == [f EXCEPT !.titulo = IF title # NONE THEN title[1] ELSE @,
                            !.anio = IF year # NONE THEN year[1] ELSE @]
        l1 == [i \in 1..Len(l) |-> IF l[i].id = book_id THEN set(l[i]) ELSE l[i]]
    IN  IF ~Existe(l, book_id)
        THEN Sale(a, l, sq, "404", "", <<>>)
        ELSE SaleFilas(a, l1, sq, "200", <<>>, <<Book_to_dict(Fila(l1, book_id))>>)

\* The bodies in which a required field is missing or null.  A field of the
\* body is NONE when its key is absent, Some(NONE) when its value is null
\* and Some(Some(v)) when its value is v.  An exception that leaves a view
\* function is answered by Flask with 500, and the session, with what it
\* had pending, is discarded at the end of the request.

\* POST /authors: data['name'] raises KeyError when the key is absent; a
\* null name violates NOT NULL at the commit
add_author_json(a, l, sq, name) ==
    IF name = NONE THEN Sale(a, l, sq, "500", "KeyError", <<>>)
    ELSE IF name[1] = NONE THEN Sale(a, l, sq, "500", "IntegrityError", <<>>)
    ELSE add_author(a, l, sq, name[1][1])

\* POST /books: data['author_id'], then get_or_404 (a null identity loads
\* nothing), then data['title'], then the commit
add_book_json(a, l, sq, title, author_id, year) ==
    IF author_id = NONE THEN Sale(a, l, sq, "500", "KeyError", <<>>)
    ELSE IF author_id[1] = NONE THEN Sale(a, l, sq, "404", "", <<>>)
    ELSE IF ~Existe(a, author_id[1][1]) THEN Sale(a, l, sq, "404", "", <<>>)
    ELSE IF title = NONE THEN Sale(a, l, sq, "500", "KeyError", <<>>)
    ELSE IF title[1] = NONE THEN Sale(a, l, sq, "500", "IntegrityError", <<>>)
    ELSE add_book(a, l, sq, title[1][1], author_id[1][1], year)

\* PUT /books/<id>: get_or_404, then the assignments; a null title violates
\* NOT NULL at the commit, which fails as a whole
update_book_json(a, l, sq, book_id, title, year) ==
    IF ~Existe(l, book_id) THEN Sale(a, l, sq, "404", "", <<>>)
    ELSE IF title # NONE /\ title[1] = NONE
    THEN Sale(a, l, sq, "500", "IntegrityError", <<>>)
    ELSE update_book(a, l, sq, book_id, IF title = NONE THEN NONE ELSE title[1], year)

\* the relationship declared with a delete cascade towards the author
delete_book_cascade(a, l, sq, book_id) ==
    IF ~Existe(l, book_id)
    THEN Sale(a, l, sq, "404", "", <<>>)
    ELSE Sale(Quitar(a, {Fila(l, book_id).autor_id}), Quitar(l, {book_id}), sq, "204", "", <<>>)

delete_book(a, l, sq, book_id) ==
    IF ~Existe(l, book_id)
    THEN Sale(a, l, sq, "404", "", <<>>)
    ELSE Sale(a, Quitar(l, {book_id}), sq, "204", "", <<>>)

---------------------------------------------------------------------------
(* The read functions *)

\* FROM autores JOIN libros ON autores.id = libros.autor_id, as a nested
\* loop in table order: the rows of author i and those of the later authors
RECURSIVE JoinAutoresLibros(_, _, _)
JoinAutoresLibros(a, l, i) ==
    IF i > Len(a) THEN <<>>
    ELSE LET suyos == SelectSeq(l, LAMBDA f : f.autor_id = a[i].id)
         IN  [k \in 1..Len(suyos) |->
                 [titulo |-> suyos[k].titulo, anio |-> suyos[k].anio, nombre |-> a[i].nombre]]
             \o JoinAutoresLibros(a, l, i + 1)

\* the join written as FROM libros LEFT JOIN autores
consultar_libros_sql_left(a, l, sq) ==
    SaleFilas(a, l, sq, "None", <<>>,
              [k \in 1..Len(l) |->
                  [titulo |-> l[k].titulo, anio |-> l[k].anio,
                   nombre |-> IF Existe(a, l[k].autor_id)
                              THEN Fila(a, l[k].autor_id).nombre ELSE ""]])

\* src/3a/ej3a1.py : prints one line per row of the join, returns nothing
consultar_libros_sql(a, l, sq) ==
    SaleFilas(a, l, sq, "None", <<>>, JoinAutoresLibros(a, l, 1))

\* src/3a/ej3a1.py : the rows of the join for one name; the function ends
\* without a return statement when fetchall() gives an empty list
buscar_libros_por_autor_sql(a, l, sq, nombre_autor) ==
    LET join == SelectSeq(JoinAutoresLibros(a, l, 1), LAMBDA r : r.nombre = nombre_autor)
        resultados == [k \in 1..Len(join) |-> [titulo |-> join[k].titulo, anio |-> join[k].anio]]
    IN  IF resultados # <<>>
        THEN SaleFilas(a, l, sq, "list", <<>>, resultados)
        ELSE SaleFilas(a, l, sq, "None", <<>>, <<>>)

\* the pipeline without its $sort stage: the documents in collection order
consultar_libros_doc_sin_sort(a, l, sq) ==
    LET conAutor == SelectSeq(l, LAMBDA f : Existe(a, f.autor_id))
        docs == [k \in 1..Len(conAutor) |->
                    [titulo |-> conAutor[k].titulo, anio |-> conAutor[k].anio,
                     nombre |-> Fila(a, conAutor[k].autor_id).nombre]]
    IN  SaleFilas(a, l, sq, "None", <<>>, docs)

\* src/3a/ej3a4.py : $lookup, $unwind (a book without author gives no
\* document), $project, $sort by autor_nombre and titulo; prints the rows
consultar_libros_doc(a, l, sq) ==
    LET conAutor == SelectSeq(l, LAMBDA f : Existe(a, f.autor_id))
        docs == [k \in 1..Len(conAutor) |->
                    [titulo |-> conAutor[k].titulo, anio |-> conAutor[k].anio,
                     nombre |-> Fila(a, conAutor[k].autor_id).nombre]]
        claves == [k \in 1..Len(docs) |-> <<Rango(docs[k].nombre)>> \o ClaveTexto(docs[k].titulo)]
    IN  SaleFilas(a, l, sq, "None", <<>>, Ordenar(docs, claves))

\* src/3a/ej3a4.py : find_one gives the first author of that name; then
\* $match on its _id, $sort by anio, $project
buscar_libros_por_autor_doc(a, l, sq, nombre_autor) ==
    LET conNombre == SelectSeq(a, LAMBDA x : x.nombre = nombre_autor)
        autor == conNombre[1]
        suyos == SelectSeq(l, LAMBDA f : f.autor_id = autor.id)
        claves == [k \in 1..Len(suyos) |-> ClaveOpt(suyos[k].anio)]
        orden == Ordenar(suyos, claves)
    IN  IF conNombre = <<>>
        THEN SaleFilas(a, l, sq, "list", <<>>, <<>>)
        ELSE SaleFilas(a, l, sq, "list", <<>>,
                       [k \in 1..Len(orden) |-> [titulo |-> orden[k].titulo, anio |-> orden[k].anio]])

---------------------------------------------------------------------------
(* The state machine *)

Lotes(S) == UNION {[1..k -> S] : k \in 1..MaxLote}

\* (titulo, anio, autor_id) entries given to the SQL insert functions
EntradasSql == TitulosBase \X AniosBase \X RefsAutor
\* the same with the author given by the string form of its ObjectId
EntradasDoc == TitulosBase \X AniosBase \X {Str(n) : n \in RefsAutor}

\* the arguments and the outcome of the last call
Ult(op, id, titulo, anio, autor, entradas, falla, r) ==
    [op |-> op, id |-> id, titulo |-> titulo, anio |-> anio, autor |-> autor,
     entradas |-> entradas, falla |-> falla,
     res |-> r.res, raised |-> r.raised, ids |-> r.ids, filas |-> r.filas]

\* the schema each variant works on: that of crear_tablas, of test.sql, of
\* crear_colecciones, of db.create_all()
Esquema(v) ==
    CASE v = "sql" -> TablasSql
      [] v = "sqlfile" -> TablasSql
      [] v = "doc" -> ColeccionesDoc
      [] v = "http" -> {"authors", "books"}

\* the functions other than the schema's are called once the schema exists
Deja(r, u) ==
    /\ esquema = Esquema(variante)
    /\ autores' = r.autores
    /\ libros' = r.libros
    /\ seq' = r.seq
    /\ pre' = [autores |-> autores, libros |-> libros]
    /\ last' = u
    /\ UNCHANGED <<variante, guion, esquema>>

\* a call that acts on the schema
DejaEsquema(r, u) ==
    /\ esquema' = r.esquema
    /\ autores' = r.autores
    /\ libros' = r.libros
    /\ seq' = r.seq
    /\ pre' = [autores |-> autores, libros |-> libros]
    /\ last' = u
    /\ UNCHANGED <<variante, guion, nAct>>

\* no driver script is running: the functions are called one by one
GuionParado ==
    [pc |-> "", conexion |-> "", handle |-> "", error |-> "", paso |-> 0,
     escapa |-> "", ids |-> <<>>, mongodb |-> "", mongodb_proceso |-> ""]

\* the catalog the script leaves: test.sql is data outside the sources, so a
\* small catalog with authors is taken, to which the run adds its books
BdDesdeSql == [autores |-> <<Autor(1, "A"), Autor(2, "B")>>, libros |-> <<>>]

Init ==
    /\ variante \in Variantes
    /\ autores = IF variante = "sqlfile" THEN BdDesdeSql.autores ELSE <<>>
    /\ libros = IF variante = "sqlfile" THEN BdDesdeSql.libros ELSE <<>>
    /\ seq = [autores |-> Len(autores), libros |-> Len(libros)]
    /\ nAct = 0
    /\ pre = [autores |-> autores, libros |-> libros]
    /\ last = Ult("", 0, NONE, NONE, NONE, <<>>, <<>>,
                  Sale(autores, libros, seq, "", "", <<>>))
    /\ guion = GuionParado
    /\ esquema = IF variante \in {"sqlfile", "http"} THEN Esquema(variante) ELSE {}

\* src/3a/ej3a1.py : crear_tablas, on a new connection or on any catalog
CrearTablas ==
    /\ variante = "sql"
    /\ DejaEsquema(crear_tablas(esquema, autores, libros, seq),
                   Ult("crear_tablas", 0, NONE, NONE, NONE, <<>>, <<>>,
                       crear_tablas(esquema, autores, libros, seq)))

\* src/3a/ej3a4.py : crear_colecciones, on a new connection or on any catalog
CrearColecciones ==
    /\ variante = "doc"
    /\ DejaEsquema(crear_colecciones(esquema, autores, libros, seq),
                   Ult("crear_colecciones", 0, NONE, NONE, NONE, <<>>, <<>>,
                       crear_colecciones(esquema, autores, libros, seq)))

InsertarAutoresSql ==
    /\ variante = "sql"
    /\ \E nombres \in Lotes(Nombres) :
          /\ seq.autores + Len(nombres) <= MaxAutores
          /\ Deja(insertar_autores_sql(autores, libros, seq, nombres),
                  Ult("insertar_autores", 0, NONE, NONE, NONE, nombres, <<>>,
                      insertar_autores_sql(autores, libros, seq, nombres)))
    /\ UNCHANGED nAct

InsertarLibrosSql ==
    /\ variante = "sql"
    /\ \E entradas \in Lotes(EntradasSql) :
          /\ seq.libros + Len(entradas) <= MaxLibros
          /\ Deja(insertar_libros_sql(autores, libros, seq, entradas),
                  Ult("insertar_libros", 0, NONE, NONE, NONE, entradas, <<>>,
                      insertar_libros_sql(autores, libros, seq, entradas)))
    /\ UNCHANGED nAct

ActualizarLibroSql ==
    /\ variante = "sql"
    /\ nAct < MaxAct
    /\ nAct' = nAct + 1
    /\ \E id \in 1..(seq.libros + 1), t \in Opt(Titulos(MaxTitulo)), y \in Opt(Anios) :
          Deja(actualizar_libro_sql(autores, libros, seq, id, t, y),
               Ult("actualizar_libro", id, t, y, NONE, <<>>, <<>>,
                   actualizar_libro_sql(autores, libros, seq, id, t, y)))

EliminarLibroSql ==
    /\ variante = "sql"
    /\ \E id \in 1..(seq.libros + 1) :
          Deja(eliminar_libro_sql(autores, libros, seq, id),
               Ult("eliminar_libro", id, NONE, NONE, NONE, <<>>, <<>>,
                   eliminar_libro_sql(autores, libros, seq, id)))
    /\ UNCHANGED nAct

EjemploTransaccionSql ==
    /\ variante = "sql"
    /\ seq.autores + 1 <= MaxAutores
    /\ seq.libros + 1 <= MaxLibros
    /\ \E f \in FallasSql :
          Deja(ejemplo_transaccion_sql(autores, libros, seq, f[1], f[2]),
               Ult("ejemplo_transaccion", 0, NONE, NONE, NONE, <<>>, f,
                   ejemplo_transaccion_sql(autores, libros, seq, f[1], f[2])))
    /\ UNCHANGED nAct

AgregarLibroFile ==
    /\ variante = "sqlfile"
    /\ seq.libros + 1 <= MaxLibros
    /\ \E e \in EntradasSql :
          Deja(agregar_libro_file(autores, libros, seq, e[1], e[2], e[3]),
               Ult("agregar_libro", 0, Some(e[1]), e[2], Some(e[3]), <<>>, <<>>,
                   agregar_libro_file(autores, libros, seq, e[1], e[2], e[3])))
    /\ UNCHANGED nAct

ActualizarLibroFile ==
    /\ variante = "sqlfile"
    /\ nAct < MaxAct
    /\ nAct' = nAct + 1
    /\ \E id \in 1..(seq.libros + 1), t \in Opt(Titulos(MaxTitulo)), y \in Opt(Anios),
          x \in Opt(RefsAutor) :
          Deja(actualizar_libro_file(autores, libros, seq, id, t, y, x),
               Ult("actualizar_libro", id, t, y, x, <<>>, <<>>,
                   actualizar_libro_file(autores, libros, seq, id, t, y, x)))

InsertarAutoresDoc ==
    /\ variante = "doc"
    /\ \E nombres \in Lotes(Nombres) :
          /\ seq.autores + Len(nombres) <= MaxAutores
          /\ Deja(insertar_autores_doc(autores, libros, seq, nombres),
                  Ult("insertar_autores", 0, NONE, NONE, NONE, nombres, <<>>,
                      insertar_autores_doc(autores, libros, seq, nombres)))
    /\ UNCHANGED nAct

InsertarLibrosDoc ==
    /\ variante = "doc"
    /\ \E entradas \in Lotes(EntradasDoc) :
          /\ seq.libros + Len(entradas) <= MaxLibros
          /\ Deja(insertar_libros_doc(autores, libros, seq, entradas),
                  Ult("insertar_libros", 0, NONE, NONE, NONE, entradas, <<>>,
                      insertar_libros_doc(autores, libros, seq, entradas)))
    /\ UNCHANGED nAct

ActualizarLibroDoc ==
    /\ variante = "doc"
    /\ nAct < MaxAct
    /\ nAct' = nAct + 1
    /\ \E id \in 1..(seq.libros + 1), t \in Opt(Titulos(MaxTitulo)), y \in Opt(Anios) :
          Deja(actualizar_libro_doc(autores, libros, seq, Str(id), t, y),
               Ult("actualizar_libro", id, t, y, NONE, <<>>, <<>>,
                   actualizar_libro_doc(autores, libros, seq, Str(id), t, y)))

EliminarLibroDoc ==
    /\ variante = "doc"
    /\ \E id \in 1..(seq.libros + 1) :
          Deja(eliminar_libro_doc(autores, libros, seq, Str(id)),
               Ult("eliminar_libro", id, NONE, NONE, NONE, <<>>, <<>>,
                   eliminar_libro_doc(autores, libros, seq, Str(id))))
    /\ UNCHANGED nAct

EjemploTransaccionDoc ==
    /\ variante = "doc"
    /\ seq.autores + 1 <= MaxAutores
    /\ seq.libros + 2 <= MaxLibros
    /\ \E f \in FallasDoc :
          /\ f[1] \in {0, 1} => f[2] = 0
          /\ Deja(ejemplo_transaccion_doc(autores, libros, seq, f[1], f[2]),
                  Ult("ejemplo_transaccion", 0, NONE, NONE, NONE, <<>>, f,
                      ejemplo_transaccion_doc(autores, libros, seq, f[1], f[2])))
    /\ UNCHANGED nAct

AddAuthor ==
    /\ variante = "http"
    /\ Max(Ids(autores)) + 1 <= MaxAutores
    /\ \E name \in Nombres :
          Deja(add_author(autores, libros, seq, name),
               Ult("add_author", 0, NONE, NONE, NONE, <<name>>, <<>>,
                   add_author(autores, libros, seq, name)))
    /\ UNCHANGED nAct

AddBook ==
    /\ variante = "http"
    /\ Max(Ids(libros)) + 1 <= MaxLibros
    /\ \E title \in TitulosBase, year \in AniosBase \cup {NONE}, author_id \in RefsAutor :
          Deja(add_book(autores, libros, seq, title, author_id, year),
               Ult("add_book", 0, Some(title), year, Some(author_id), <<>>, <<>>,
                   add_book(autores, libros, seq, title, author_id, year)))
    /\ UNCHANGED nAct

DeleteBook ==
    /\ variante = "http"
    /\ \E id \in 1..(Max(Ids(libros)) + 1) :
          Deja(delete_book(autores, libros, seq, id),
               Ult("delete_book", id, NONE, NONE, NONE, <<>>, <<>>,
                   delete_book(autores, libros, seq, id)))
    /\ UNCHANGED nAct

ConsultarLibrosSql ==
    /\ variante = "sql"
    /\ Deja(consultar_libros_sql(autores, libros, seq),
            Ult("consultar_libros", 0, NONE, NONE, NONE, <<>>, <<>>,
                consultar_libros_sql(autores, libros, seq)))
    /\ UNCHANGED nAct

BuscarLibrosPorAutorSql ==
    /\ variante = "sql"
    /\ \E nombre \in Nombres :
          Deja(buscar_libros_por_autor_sql(autores, libros, seq, nombre),
               Ult("buscar_libros_por_autor", 0, NONE, NONE, NONE, <<nombre>>, <<>>,
                   buscar_libros_por_autor_sql(autores, libros, seq, nombre)))
    /\ UNCHANGED nAct

ObtenerAutores ==
    /\ variante = "sqlfile"
    /\ Deja(obtener_autores(autores, libros, seq),
            Ult("obtener_autores", 0, NONE, NONE, NONE, <<>>, <<>>,
                obtener_autores(autores, libros, seq)))
    /\ UNCHANGED nAct

ObtenerLibros ==
    /\ variante = "sqlfile"
    /\ Deja(obtener_libros(autores, libros, seq),
            Ult("obtener_libros", 0, NONE, NONE, NONE, <<>>, <<>>,
                obtener_libros(autores, libros, seq)))
    /\ UNCHANGED nAct

ConsultarLibrosDoc ==
    /\ variante = "doc"
    /\ Deja(consultar_libros_doc(autores, libros, seq),
            Ult("consultar_libros", 0, NONE, NONE, NONE, <<>>, <<>>,
                consultar_libros_doc(autores, libros, seq)))
    /\ UNCHANGED nAct

BuscarLibrosPorAutorDoc ==
    /\ variante = "doc"
    /\ \E nombre \in Nombres :
          Deja(buscar_libros_por_autor_doc(autores, libros, seq, nombre),
               Ult("buscar_libros_por_autor", 0, NONE, NONE, NONE, <<nombre>>, <<>>,
                   buscar_libros_por_autor_doc(autores, libros, seq, nombre)))
    /\ UNCHANGED nAct

GetAuthors ==
    /\ variante = "http"
    /\ Deja(get_authors(autores, libros, seq),
            Ult("get_authors", 0, NONE, NONE, NONE, <<>>, <<>>,
                get_authors(autores, libros, seq)))
    /\ UNCHANGED nAct

GetAuthor ==
    /\ variante = "http"
    /\ \E id \in 1..(Max(Ids(autores)) + 1) :
          Deja(get_author(autores, libros, seq, id),
               Ult("get_author", id, NONE, NONE, NONE, <<>>, <<>>,
                   get_author(autores, libros, seq, id)))
    /\ UNCHANGED nAct

GetBook ==
    /\ variante = "http"
    /\ \E id \in 1..(Max(Ids(libros)) + 1) :
          Deja(get_book(autores, libros, seq, id),
               Ult("get_book", id, NONE, NONE, NONE, <<>>, <<>>,
                   get_book(autores, libros, seq, id)))
    /\ UNCHANGED nAct

\* the values of a PUT are those an insert may give, so the catalogs it
\* reaches are finitely many without a cap on the number of calls
UpdateBook ==
    /\ variante = "http"
    /\ UNCHANGED nAct
    /\ \E id \in 1..(Max(Ids(libros)) + 1), t \in Opt({<<"a">>}),
          y \in Opt(AniosBase \cup {NONE}) :
          Deja(update_book(autores, libros, seq, id, t, y),
               Ult("update_book", id, t, y, NONE, <<>>, <<>>,
                   update_book(autores, libros, seq, id, t, y)))

\* a field of a body that is missing (NONE) or null (Some(NONE))
SinValor == {NONE, Some(NONE)}
\* a field of a body: missing, null or one of the values of S
Campo(S) == SinValor \cup {Some(Some(x)) : x \in S}

\* POST /authors without a usable name
AddAuthorSinNombre ==
    /\ variante = "http"
    /\ \E name \in SinValor :
          Deja(add_author_json(autores, libros, seq, name),
               Ult("add_author_json", 0, NONE, NONE, NONE, <<name>>, <<>>,
                   add_author_json(autores, libros, seq, name)))
    /\ UNCHANGED nAct

\* POST /books without a usable title or without a usable author_id
AddBookIncompleto ==
    /\ variante = "http"
    /\ \E title \in Campo({<<"a">>}), author_id \in Campo({1}), year \in {NONE} :
          /\ title \in SinValor \/ author_id \in SinValor
          /\ Deja(add_book_json(autores, libros, seq, title, author_id, year),
                  Ult("add_book_json", 0, title, year, author_id, <<>>, <<>>,
                      add_book_json(autores, libros, seq, title, author_id, year)))
    /\ UNCHANGED nAct

\* PUT /books/<id> with "title": null; falla names the null field
UpdateBookTituloNulo ==
    /\ variante = "http"
    /\ \E id \in 1..(Max(Ids(libros)) + 1), y \in {NONE} :
          Deja(update_book_json(autores, libros, seq, id, Some(NONE), y),
               Ult("update_book", id, Some(NONE), y, NONE, <<>>, <<"title">>,
                   update_book_json(autores, libros, seq, id, Some(NONE), y)))
    /\ UNCHANGED nAct

\* the calls that are not updates
NextSinAct ==
    \/ CrearTablas
    \/ CrearColecciones
    \/ InsertarAutoresSql
    \/ InsertarLibrosSql
    \/ EliminarLibroSql
    \/ EjemploTransaccionSql
    \/ AgregarLibroFile
    \/ InsertarAutoresDoc
    \/ InsertarLibrosDoc
    \/ EliminarLibroDoc
    \/ EjemploTransaccionDoc
    \/ AddAuthor
    \/ AddBook
    \/ DeleteBook

\* the calls that only read
NextLectura ==
    \/ ConsultarLibrosSql
    \/ BuscarLibrosPorAutorSql
    \/ ObtenerAutores
    \/ ObtenerLibros
    \/ ConsultarLibrosDoc
    \/ BuscarLibrosPorAutorDoc
    \/ GetAuthors
    \/ GetAuthor
    \/ GetBook

Next ==
    \/ NextSinAct
    \/ NextLectura
    \/ ActualizarLibroSql
    \/ ActualizarLibroFile
    \/ ActualizarLibroDoc
    \/ UpdateBook
    \/ AddAuthorSinNombre
    \/ AddBookIncompleto
    \/ UpdateBookTituloNulo

\* every run of the catalog
Spec == Init /\ [][Next]_vars

\* the runs in which no update function is called
SpecSinAct == Init /\ [][NextSinAct]_vars

\* the runs of inserts, deletes, grouped inserts and reads
SpecLectura == Init /\ [][NextSinAct \/ NextLectura]_vars

\* the runs of the HTTP variant, its PUT included
InitHttp == Init /\ variante = "http"
NextHttp ==
    \/ AddAuthor
    \/ AddBook
    \/ DeleteBook
    \/ GetAuthors
    \/ GetAuthor
    \/ GetBook
    \/ UpdateBook
SpecHttp == InitHttp /\ [][NextHttp]_vars

\* the runs of the HTTP variant in which bodies may lack a field or carry a
\* null: every request that can change the store, and GET /authors/<id>
NextHttpJson ==
    \/ AddAuthor
    \/ AddBook
    \/ DeleteBook
    \/ UpdateBook
    \/ GetAuthor
    \/ AddAuthorSinNombre
    \/ AddBookIncompleto
    \/ UpdateBookTituloNulo
SpecHttpJson == InitHttp /\ [][NextHttpJson]_vars

---------------------------------------------------------------------------
(* The scripts under "if __name__ == '__main__'": a try block of calls,    *)
(* its except clauses and its finally clause.  guion holds                 *)
(*   pc        "try", "except", "finally" or "done"                        *)
(*   conexion  what the script's variable is: "unbound", "None", "handle"  *)
(*   handle    the connection itself: "none", "open" or "closed"           *)
(*   error     the exception in flight, by the class that decides which    *)
(*             except clause takes it                                      *)
(*   paso      the next statement of the try block                         *)
(*   escapa    the exception that leaves the script                        *)
(*   ids       the identities the script keeps in a variable               *)
(*   mongodb   ej3a4.py: "none", "started" by iniciar_mongodb_docker or    *)
(*             "stopped" by detener_mongodb_docker                         *)
(*   mongodb_proceso  ej3a4.py: the script's variable of that name         *)
(* A statement that fails for a reason outside the program (the engine,    *)
(* the file system, Docker) leaves the catalog as it was.                  *)

\* the data of the scripts, written without accents
AutoresGuion == <<"Gabriel Garcia Marquez", "Isabel Allende", "Jorge Luis Borges">>
LibrosGuion ==
    << <<"Cien anos de soledad", 1967, 1>>,
       <<"El amor en los tiempos del colera", 1985, 1>>,
       <<"La casa de los espiritus", 1982, 2>>,
       <<"Paula", 1994, 2>>,
       <<"Ficciones", 1944, 3>>,
       <<"El Aleph", 1949, 3>> >>

\* the number of statements of each try block
PasosGuion == [sql |-> 11, sqlfile |-> 8, doc |-> 11]

\* statement k of the try block of src/3a/ej3a1.py
PasoSql(k, a, l, sq, f) ==
    CASE k = 1 -> SaleEsquema({}, <<>>, <<>>, [autores |-> 0, libros |-> 0], "conexion", "")
      [] k = 2 -> crear_tablas(esquema, a, l, sq)
      [] k = 3 -> insertar_autores_sql(a, l, sq, AutoresGuion)
      [] k = 4 -> insertar_libros_sql(a, l, sq,
                      [i \in 1..Len(LibrosGuion) |->
                          <<<<LibrosGuion[i][1]>>, Some(LibrosGuion[i][2]), LibrosGuion[i][3]>>])
      [] k \in {5, 8, 10} -> consultar_libros_sql(a, l, sq)
      [] k = 6 -> buscar_libros_por_autor_sql(a, l, sq, "Gabriel Garcia Marquez")
      [] k = 7 -> actualizar_libro_sql(a, l, sq, 1,
                      Some(<<"Cien anos de soledad (Edicion especial)">>), NONE)
      [] k = 9 -> eliminar_libro_sql(a, l, sq, 6)
      [] k = 11 -> ejemplo_transaccion_sql(a, l, sq, f[1], f[2])

NombrePasoSql ==
    <<"crear_conexion", "crear_tablas", "insertar_autores", "insertar_libros",
      "consultar_libros", "buscar_libros_por_autor", "actualizar_libro",
      "consultar_libros", "eliminar_libro", "consultar_libros", "ejemplo_transaccion">>

\* statement k of the try block of src/3a/ej3a2.py; nuevo_id is the value
\* agregar_libro returned
PasoFile(k, a, l, sq, nuevo_id) ==
    CASE k = 1 -> SaleEsquema(Esquema("sqlfile"), BdDesdeSql.autores, BdDesdeSql.libros,
                       [autores |-> Len(BdDesdeSql.autores), libros |-> Len(BdDesdeSql.libros)],
                       "conexion", "")
      [] k = 2 -> SaleFilas(a, l, sq, "list", <<>>, <<"autores", "libros">>)
      [] k = 3 -> obtener_autores(a, l, sq)
      [] k \in {4, 6, 8} -> obtener_libros(a, l, sq)
      [] k = 5 -> agregar_libro_file(a, l, sq, <<"Violeta">>, Some(2022), 2)
      [] k = 7 -> actualizar_libro_file(a, l, sq, nuevo_id[1], NONE, Some(2023), NONE)

NombrePasoFile ==
    <<"crear_bd_desde_sql", "sqlite_master", "obtener_autores", "obtener_libros",
      "agregar_libro", "obtener_libros", "actualizar_libro", "obtener_libros">>

\* db.libros.find_one({"titulo": t}): the first book of that title, if any
find_one_titulo(l, t) == SelectSeq(l, LAMBDA f : f.titulo = <<t>>)

\* statement k of the try block of src/3a/ej3a4.py; autores_id is the value
\* insertar_autores returned, libro_id the identity the script looked up
PasoDoc(k, a, l, sq, autores_id, libro_id, f) ==
    CASE k \in {1, 2} -> Sale(a, l, sq, "True", "", <<>>)
      [] k = 3 -> SaleEsquema({}, <<>>, <<>>, [autores |-> 0, libros |-> 0], "conexion", "")
      [] k = 4 -> crear_colecciones(esquema, a, l, sq)
      [] k = 5 -> insertar_autores_doc(a, l, sq, AutoresGuion)
      [] k = 6 -> insertar_libros_doc(a, l, sq,
                      [i \in 1..Len(LibrosGuion) |->
                          <<<<LibrosGuion[i][1]>>, Some(LibrosGuion[i][2]),
                            autores_id[LibrosGuion[i][3]]>>])
      [] k = 7 -> consultar_libros_doc(a, l, sq)
      [] k = 8 -> buscar_libros_por_autor_doc(a, l, sq, "Gabriel Garcia Marquez")
      [] k = 9 -> actualizar_libro_doc(a, l, sq, libro_id[1],
                      Some(<<"Titulo actualizado">>), Some(2025))
      [] k = 10 -> eliminar_libro_doc(a, l, sq, libro_id[1])
      [] k = 11 -> ejemplo_transaccion_doc(a, l, sq, f[1], f[2])

NombrePasoDoc ==
    <<"verificar_docker_instalado", "iniciar_mongodb_docker", "crear_conexion",
      "crear_colecciones", "insertar_autores", "insertar_libros", "consultar_libros",
      "buscar_libros_por_autor", "actualizar_libro", "eliminar_libro",
      "ejemplo_transaccion">>

\* what a statement of the try block leaves: the catalog of r, and the
\* script one statement further, or in its except clauses with error
DejaGuion(nombre, r, error, conexion, handle, ids) ==
    /\ autores' = r.autores
    /\ libros' = r.libros
    /\ seq' = r.seq
    /\ pre' = [autores |-> autores, libros |-> libros]
    /\ last' = Ult(nombre, 0, NONE, NONE, NONE, <<>>, <<>>, r)
    /\ esquema' = IF "esquema" \in DOMAIN r THEN r.esquema ELSE esquema
    /\ guion' = [guion EXCEPT
                    !.pc = IF error # "" THEN "except"
                           ELSE IF guion.paso = PasosGuion[variante] THEN "finally"
                           ELSE "try",
                    !.paso = IF error # "" THEN @ ELSE @ + 1,
                    !.error = error,
                    !.conexion = conexion,
                    !.handle = handle,
                    !.ids = ids,
                    \* "if not iniciar_mongodb_docker(): sys.exit(1)" went through
                    !.mongodb = IF nombre = "iniciar_mongodb_docker" /\ error = ""
                                THEN "started" ELSE @]
    /\ UNCHANGED <<variante, nAct>>

\* src/3a/ej3a1.py : one statement of the try block runs
GuionSql ==
    /\ variante = "sql"
    /\ guion.pc = "try"
    /\ \E f \in FallasSql :
          LET k == guion.paso
              r == PasoSql(k, autores, libros, seq, f)
              \* "for titulo, anio in libros_autor" over the value returned
              error == IF r.raised # "" THEN "sqlite3.Error"
                       ELSE IF k = 6 /\ r.res = "None" THEN "TypeError"
                       ELSE ""
          IN  DejaGuion(NombrePasoSql[k], r, error,
                        IF k = 1 THEN "handle" ELSE guion.conexion,
                        IF k = 1 THEN "open" ELSE guion.handle,
                        guion.ids)

\* src/3a/ej3a2.py : one statement of the try block runs
GuionFile ==
    /\ variante = "sqlfile"
    /\ guion.pc = "try"
    /\ LET k == guion.paso
           r == PasoFile(k, autores, libros, seq, guion.ids)
       IN  DejaGuion(NombrePasoFile[k], r,
                     IF r.raised # "" THEN "sqlite3.Error" ELSE "",
                     IF k = 1 THEN "handle" ELSE guion.conexion,
                     IF k = 1 THEN "open" ELSE guion.handle,
                     IF k = 5 THEN r.ids ELSE guion.ids)

\* src/3a/ej3a4.py : one statement of the try block runs
GuionDoc ==
    /\ variante = "doc"
    /\ guion.pc = "try"
    /\ \E f \in FallasDoc :
          LET k == guion.paso
              hallado == IF k = 9 THEN find_one_titulo(libros, "Cien anos de soledad")
                         ELSE IF k = 10 THEN find_one_titulo(libros, "El Aleph")
                         ELSE <<>>
              \* libro_id keeps its earlier value when find_one gives None
              libro_id == IF hallado # <<>> THEN <<Str(hallado[1].id)>> ELSE guion.ids
              sinNombre == k \in {9, 10} /\ libro_id = <<>>
              r == IF sinNombre THEN Sale(autores, libros, seq, "", "", <<>>)
                   ELSE PasoDoc(k, autores, libros, seq, guion.ids, libro_id, f)
          IN  DejaGuion(NombrePasoDoc[k], r,
                        IF sinNombre THEN "NameError" ELSE "",
                        IF k = 3 THEN "handle" ELSE guion.conexion,
                        IF k = 3 THEN "open" ELSE guion.handle,
                        IF k = 5 THEN r.ids
                        ELSE IF k = 6 THEN <<>>
                        ELSE IF k \in {9, 10} THEN libro_id
                        ELSE guion.ids)

\* the exceptions a statement may raise for a reason outside the program:
\* the two checks of ej3a4.py end in sys.exit(1) when they return False
ErroresGuion(v, k) ==
    IF v = "doc"
    THEN IF k \in {1, 2} THEN {"SystemExit", "Exception"} ELSE {"Exception"}
    ELSE {"sqlite3.Error", "Exception"}

\* a statement of the try block raises.  crear_bd_desde_sql fails either
\* before sqlite3.connect returned or after it (reading test.sql, running
\* the script), and then its connection is a local that is lost
FallaGuion ==
    /\ guion.pc = "try"
    /\ \E e \in ErroresGuion(variante, guion.paso), despues \in BOOLEAN :
          guion' = [guion EXCEPT
                       !.pc = "except",
                       !.error = e,
                       !.handle = IF variante = "sqlfile" /\ guion.paso = 1 /\ despues
                                  THEN "open" ELSE @]
    /\ UNCHANGED <<variante, autores, libros, seq, nAct, pre, last, esquema>>

\* the except clauses: "except sqlite3.Error" (ej3a1.py), that and
\* "except Exception" (ej3a2.py), "except Exception" (ej3a4.py)
Capturada(v, e) ==
    CASE v = "sql" -> e = "sqlite3.Error"
      [] v = "sqlfile" -> e # "SystemExit"
      [] v = "doc" -> e # "SystemExit"

ExceptGuion ==
    /\ guion.pc = "except"
    /\ guion' = [guion EXCEPT
                    !.pc = "finally",
                    !.error = IF Capturada(variante, @) THEN "" ELSE @]
    /\ UNCHANGED <<variante, autores, libros, seq, nAct, pre, last, esquema>>

\* the finally clauses:
\*   ej3a1.py  "if conexion: conexion.close()" (a NameError when the name
\*             was never bound, which replaces the exception in flight)
\*   ej3a2.py  "if 'conexion' in locals() and conexion: conexion.close()"
\*   ej3a4.py  "if db == None: print(...)" and "if mongodb_proceso:
\*             detener_mongodb_docker()"; mongodb_proceso is assigned None
\*             before the try block and nowhere else: nothing is closed
FinallyGuion ==
    /\ guion.pc = "finally"
    /\ guion' = [guion EXCEPT
                    !.pc = "done",
                    !.error = "",
                    !.handle = IF variante \in {"sql", "sqlfile"} /\ guion.conexion = "handle"
                               THEN "closed" ELSE @,
                    !.escapa = IF variante = "sql" /\ guion.conexion = "unbound"
                               THEN "NameError" ELSE guion.error,
                    !.mongodb = IF variante = "doc" /\ guion.mongodb_proceso # "None"
                                THEN "stopped" ELSE @]
    /\ UNCHANGED <<variante, autores, libros, seq, nAct, pre, last, esquema>>

\* a script starts: no connection yet, db = None in ej3a4.py
InitGuion ==
    /\ variante \in {"sql", "sqlfile", "doc"}
    /\ autores = <<>>
    /\ libros = <<>>
    /\ seq = [autores |-> 0, libros |-> 0]
    /\ nAct = 0
    /\ pre = [autores |-> <<>>, libros |-> <<>>]
    /\ last = Ult("", 0, NONE, NONE, NONE, <<>>, <<>>,
                  Sale(<<>>, <<>>, seq, "", "", <<>>))
    /\ guion = [pc |-> "try",
                conexion |-> IF variante = "doc" THEN "None" ELSE "unbound",
                handle |-> "none", error |-> "", paso |-> 1, escapa |-> "", ids |-> <<>>,
                mongodb |-> "none", mongodb_proceso |-> "None"]
    /\ esquema = {}

NextGuion ==
    \/ GuionSql
    \/ GuionFile
    \/ GuionDoc
    \/ FallaGuion
    \/ ExceptGuion
    \/ FinallyGuion

\* the runs of the three scripts
SpecGuion == InitGuion /\ [][NextGuion]_vars

---------------------------------------------------------------------------
(* Properties of actualizar_libro (update_book).  Each is stated of the    *)
(* last call (last) and of the catalog it found (pre).                     *)

\* C1: for every existing book (SQL and document variants, whose update
\* takes a title and a year), an update with only the year supplied sets
\* the year and leaves title and author reference as they were; with only
\* the title supplied it sets the title and leaves year and author reference.
C1_SoloUnCampo ==
    (/\ last.op = "actualizar_libro"
     /\ variante \in {"sql", "doc"}
     /\ Existe(pre.libros, last.id)
     /\ (last.titulo = NONE) # (last.anio = NONE))
    => /\ Existe(libros, last.id)
       /\ Fila(libros, last.id) =
             [Fila(pre.libros, last.id) EXCEPT
                 !.titulo = IF last.titulo # NONE THEN last.titulo[1] ELSE @,
                 !.anio = IF last.anio # NONE THEN last.anio ELSE @]

\* C2: an update with no field supplied raises nothing, leaves every author
\* and book unchanged, and returns true when a book with the id exists and
\* false when none does.
C2_SinCampos ==
    (/\ last.op = "actualizar_libro"
     /\ last.titulo = NONE /\ last.anio = NONE /\ last.autor = NONE)
    => /\ last.raised = ""
       /\ autores = pre.autores
       /\ libros = pre.libros
       /\ last.res = Bool(Existe(pre.libros, last.id))

\* C3: for every existing book, an update whose title contains a single
\* quote raises nothing, stores the title verbatim in that book and changes
\* no other book.
C3_TituloConComilla ==
    (/\ last.op = "actualizar_libro"
     /\ Existe(pre.libros, last.id)
     /\ last.titulo # NONE
     /\ \E i \in 1..Len(last.titulo[1]) : last.titulo[1][i] = Comilla)
    => /\ last.raised = ""
       /\ Fila(libros, last.id).titulo = last.titulo[1]
       /\ Quitar(libros, {last.id}) = Quitar(pre.libros, {last.id})

\* C4: in the variants whose update returns a flag, an update with at least
\* one field supplied returns true whenever the book exists, whatever the
\* new values, and returns false without raising exactly when it does not.
C4_ResultadoActualizar ==
    (/\ last.op = "actualizar_libro"
     /\ variante \in {"sqlfile", "doc"}
     /\ (last.titulo # NONE \/ last.anio # NONE \/ last.autor # NONE))
    => /\ last.raised = ""
       /\ last.res = Bool(Existe(pre.libros, last.id))

---------------------------------------------------------------------------
(* Properties of eliminar_libro / delete_book *)

C7_EliminarNoTocaAutores ==
    last.op \in {"eliminar_libro", "delete_book"} => autores = pre.autores

\* the last book of an existing author deleted over HTTP
C7_Witness ==
    /\ variante = "http"
    /\ last.op = "delete_book"
    /\ Existe(pre.libros, last.id)
    /\ Existe(autores, Fila(pre.libros, last.id).autor_id)
    /\ \A i \in 1..Len(libros) :
          libros[i].autor_id # Fila(pre.libros, last.id).autor_id

---------------------------------------------------------------------------
(* Properties of ejemplo_transaccion (grouped_insert) *)

\* C8: if any step of the grouped insert fails (the author insert, a book
\* insert, a compensating step), the authors and books after the call equal
\* those before it.
C8_TodoONada ==
    (/\ last.op = "ejemplo_transaccion"
     /\ IF variante = "sql" THEN last.falla[1] # ""
        ELSE last.falla[1] # 0 \/ last.falla[2] # 0)
    => /\ autores = pre.autores
       /\ libros = pre.libros

C10_LibrosDelAutorNuevo ==
    (/\ last.op = "ejemplo_transaccion"
     /\ last.raised = ""
     /\ IF variante = "sql" THEN last.falla[1] = "" ELSE last.res = "True")
    => LET nuevos == Ids(autores) \ Ids(pre.autores)
       IN  /\ Len(autores) = Len(pre.autores) + 1
           /\ Cardinality(nuevos) = 1
           /\ Len(libros) >= Len(pre.libros) + 1
           /\ \A i \in 1..Len(libros) :
                 libros[i].id \notin Ids(pre.libros) => libros[i].autor_id \in nuevos

\* ---------------------------------------------------------------------------
\* C11  buscar_libros_por_autor returns an empty sequence, neither an error
\*      nor a null value, when no author has the given name or when the
\*      authors of that name have no books.
C11_SinLibrosListaVacia ==
    (/\ last.op = "buscar_libros_por_autor"
     /\ \A i \in 1..Len(autores), j \in 1..Len(libros) :
           autores[i].nombre = last.entradas[1] => libros[j].autor_id # autores[i].id)
    => (last.raised = "" /\ last.res = "list" /\ last.filas = <<>>)

\* ---------------------------------------------------------------------------
\* C12  buscar_libros_por_autor(name) returns exactly the (title, year) pairs
\*      of the books whose author reference resolves to an author named name,
\*      one pair per such book, in whatever order.
C12_LibrosDelNombre ==
    last.op = "buscar_libros_por_autor" =>
        LET califica(f) == \E i \in 1..Len(autores) :
                               /\ autores[i].id = f.autor_id
                               /\ autores[i].nombre = last.entradas[1]
            delNombre == SelectSeq(libros, califica)
            esperadas == [k \in 1..Len(delNombre) |->
                             [titulo |-> delNombre[k].titulo, anio |-> delNombre[k].anio]]
        IN  /\ Len(last.filas) = Len(esperadas)
            /\ \A k \in 1..Len(esperadas) :
                  Cardinality({m \in 1..Len(last.filas) : last.filas[m] = esperadas[k]})
                  = Cardinality({m \in 1..Len(esperadas) : esperadas[m] = esperadas[k]})

\* ---------------------------------------------------------------------------
\* C13  consultar_libros is an inner join: one (title, year, author name) row
\*      for each book whose author reference resolves, no row for a book whose
\*      author is missing, and nothing for an author without books.
C13_JoinInterno ==
    last.op = "consultar_libros" =>
        LET conAutor == SelectSeq(libros, LAMBDA f : Existe(autores, f.autor_id))
            esperadas == [k \in 1..Len(conAutor) |->
                             [titulo |-> conAutor[k].titulo, anio |-> conAutor[k].anio,
                              nombre |-> Fila(autores, conAutor[k].autor_id).nombre]]
        IN  /\ Len(last.filas) = Len(esperadas)
            /\ \A k \in 1..Len(esperadas) :
                  Cardinality({m \in 1..Len(last.filas) : last.filas[m] = esperadas[k]})
                  = Cardinality({m \in 1..Len(esperadas) : esperadas[m] = esperadas[k]})

\* a join over a book with its author, a book without, and an author without books
C13_Witness ==
    /\ last.op = "consultar_libros"
    /\ variante = "sql"
    /\ Len(last.filas) = 1
    /\ \E j \in 1..Len(libros) : ~Existe(autores, libros[j].autor_id)
    /\ \E i \in 1..Len(autores) : \A j \in 1..Len(libros) : libros[j].autor_id # autores[i].id

C15_ListadoEnOrden ==
    last.op \in {"obtener_autores", "get_authors"} =>
        /\ last.res \in {"list", "200"}
        /\ Len(last.filas) = Len(autores)
        /\ \A i \in 1..Len(autores) :
              (IF variante = "http" THEN last.filas[i].name ELSE last.filas[i].nombre)
              = autores[i].nombre

\* a listing of two authors inserted against the alphabet
C15_Witness ==
    /\ last.op = "get_authors"
    /\ Len(autores) = 2
    /\ autores[1].nombre = "B"
    /\ autores[2].nombre = "A"
    /\ Len(last.filas) = 2

\* ---------------------------------------------------------------------------
\* C16  every identity returned by a book insertion (insertar_libros of the
\*      document variant, agregar_libro) is that of the book just inserted: it
\*      is no earlier book's identity and looking it up gives the title, year
\*      and author reference that were passed, in input order.
C16_IdentidadDelLibro ==
    /\ (last.op = "insertar_libros" /\ variante = "doc") =>
          /\ Len(last.ids) = Len(last.entradas)
          /\ \A i \in 1..Len(last.entradas) :
                LET id == ObjectId(last.ids[i])
                IN  /\ ~Existe(pre.libros, id)
                    /\ Existe(libros, id)
                    /\ Fila(libros, id).titulo = last.entradas[i][1]
                    /\ Fila(libros, id).anio = last.entradas[i][2]
                    /\ Fila(libros, id).autor_id = ObjectId(last.entradas[i][3])
          /\ \A i, k \in 1..Len(last.ids) : i # k => last.ids[i] # last.ids[k]
    /\ last.op = "agregar_libro" =>
          /\ Len(last.ids) = 1
          /\ ~Existe(pre.libros, last.ids[1])
          /\ Existe(libros, last.ids[1])
          /\ Fila(libros, last.ids[1])
             = Libro(last.ids[1], last.titulo[1], last.anio, last.autor[1])

\* a second book added through agregar_libro
C16_Witness ==
    /\ last.op = "agregar_libro"
    /\ Len(pre.libros) >= 1
    /\ Len(libros) = Len(pre.libros) + 1
    /\ Len(last.ids) = 1

\* ---------------------------------------------------------------------------
\* C17  no insertion (insertar_libros, agregar_libro, POST /books) stores a
\*      book whose author reference does not resolve to an existing author.
C17_AutorExisteAlInsertar ==
    last.op \in {"insertar_libros", "agregar_libro", "add_book"} =>
        \A j \in 1..Len(libros) :
            ~Existe(pre.libros, libros[j].id) => Existe(pre.autores, libros[j].autor_id)

\* ---------------------------------------------------------------------------
\* C19  GET /authors/<id>, GET /books/<id>, PUT /books/<id> and
\*      DELETE /books/<id> with an identifier that resolves to nothing, and
\*      POST /books with an author_id that resolves to nothing, answer 404 and
\*      leave the authors and the books as they were.
C19_NoEncontrado ==
    (/\ variante = "http"
     /\ \/ last.op \in {"get_book", "update_book", "delete_book"}
           /\ ~Existe(pre.libros, last.id)
        \/ last.op = "get_author" /\ ~Existe(pre.autores, last.id)
        \/ last.op = "add_book" /\ ~Existe(pre.autores, last.autor[1]))
    => (/\ last.res = "404"
        /\ autores = pre.autores
        /\ libros = pre.libros)

\* a PUT with a new title on an identifier no book has, over a catalog that
\* holds a book
C19_Witness ==
    /\ variante = "http"
    /\ Len(pre.libros) >= 1
    /\ last.res = "404"
    /\ last.op = "update_book"
    /\ last.titulo # NONE
    /\ ~Existe(pre.libros, last.id)

\* ---------------------------------------------------------------------------
\* C20  POST /authors with a name, and POST /books with a title and the
\*      identifier of an existing author (year optional), answer 201 with the
\*      created record, add exactly one record, and a GET of the returned
\*      identifier gives the same name, or the same title, year (null when it
\*      was omitted) and author_id.
C20_CreadoYLeido ==
    /\ (variante = "http" /\ last.op = "add_author") =>
          /\ last.res = "201"
          /\ Len(last.filas) = 1
          /\ last.filas[1].name = last.entradas[1]
          /\ ~Existe(pre.autores, last.filas[1].id)
          /\ autores = Append(pre.autores, Autor(last.filas[1].id, last.entradas[1]))
          /\ libros = pre.libros
          /\ LET leido == get_author(autores, libros, seq, last.filas[1].id)
             IN  /\ leido.res = "200"
                 /\ leido.filas[1].id = last.filas[1].id
                 /\ leido.filas[1].name = last.entradas[1]
    /\ (variante = "http" /\ last.op = "add_book" /\ Existe(pre.autores, last.autor[1])) =>
          /\ last.res = "201"
          /\ Len(last.filas) = 1
          /\ last.filas[1].title = last.titulo[1]
          /\ last.filas[1].year = last.anio
          /\ last.filas[1].author_id = last.autor[1]
          /\ ~Existe(pre.libros, last.filas[1].id)
          /\ libros = Append(pre.libros, Libro(last.filas[1].id, last.titulo[1],
                                               last.anio, last.autor[1]))
          /\ autores = pre.autores
          /\ LET leido == get_book(autores, libros, seq, last.filas[1].id)
             IN  /\ leido.res = "200"
                 /\ leido.filas = last.filas

\* a book created without a year and one created with a year
C20_Witness ==
    /\ variante = "http"
    /\ last.op = "add_book"
    /\ last.res = "201"
    /\ last.anio # NONE
    /\ \E j \in 1..Len(pre.libros) : pre.libros[j].anio = NONE

\* ---------------------------------------------------------------------------
\* C18  a script releases its connection on every way out: a run that opened
\*      a connection ends with that connection closed, whether the body
\*      succeeded or raised, and the release step raises nothing when no
\*      connection was opened.
C18_ConexionLiberada ==
    guion.pc = "done" =>
        /\ guion.handle # "open"
        /\ guion.handle = "none" => guion.escapa # "NameError"

\* ---------------------------------------------------------------------------
\* C21  in the HTTP variant a create or update request whose body lacks a
\*      required field (name; title; author_id) or carries a null for it is
\*      answered with a 4xx status, and creates or modifies no author and no
\*      book.
C21_CuerpoIncompleto ==
    (/\ variante = "http"
     /\ \/ last.op \in {"add_author_json", "add_book_json"}
        \/ last.op = "update_book" /\ last.falla = <<"title">>)
    => (/\ last.res \in {"400", "404", "415", "422"}
        /\ autores = pre.autores
        /\ libros = pre.libros)

\* ---------------------------------------------------------------------------
\* C22  PUT /books/<id> changes only the fields that carry a non-null value:
\*      a title or a year that is absent from the body or null in it leaves
\*      the stored value as it was, and id and author_id never change.
C22_SoloCamposConValor ==
    (/\ variante = "http"
     /\ last.op = "update_book"
     /\ Existe(pre.libros, last.id))
    => /\ Existe(libros, last.id)
       /\ LET antes == Fila(pre.libros, last.id)
              ahora == Fila(libros, last.id)
          IN  /\ last.titulo \in SinValor => ahora.titulo = antes.titulo
              /\ last.anio \in SinValor => ahora.anio = antes.anio
              /\ ahora.autor_id = antes.autor_id

\* ---------------------------------------------------------------------------
\* C23  crear_tablas and crear_colecciones are idempotent: called any number
\*      of times on any catalog they raise nothing, leave the containers of
\*      authors and books present, and leave every author and book record
\*      as it was.
C23_EsquemaIdempotente ==
    last.op \in {"crear_tablas", "crear_colecciones"} =>
        /\ last.raised = ""
        /\ {"autores", "libros"} \subseteq esquema
        /\ autores = pre.autores
        /\ libros = pre.libros

\* crear_tablas called again, on a catalog that has an author and a book
C23_Witness ==
    /\ last.op = "crear_tablas"
    /\ Len(autores) >= 1
    /\ Len(libros) >= 1
    /\ last.raised = ""

\* ---------------------------------------------------------------------------
\* C24  obtener_libros returns, for every book whose author resolves, a
\*      tuple whose first component is the identity of that book, so two
\*      different books give different first components.
C24_PrimerComponenteEsElLibro ==
    last.op = "obtener_libros" =>
        LET conAutor == SelectSeq(libros, LAMBDA f : Existe(autores, f.autor_id))
        IN  /\ Len(last.filas) = Len(conAutor)
            /\ \A i, j \in 1..Len(last.filas) :
                  i # j => last.filas[i].autor_id # last.filas[j].autor_id
            /\ \A k \in 1..Len(conAutor) :
                  \E i \in 1..Len(last.filas) :
                      /\ last.filas[i].autor_id = conAutor[k].id
                      /\ last.filas[i].titulo = conAutor[k].titulo
                      /\ last.filas[i].anio = conAutor[k].anio

\* ---------------------------------------------------------------------------
\* C25  in the document variant consultar_libros gives its rows sorted by
\*      author name ascending and, among rows of the same author name, by
\*      title ascending.
C25_OrdenNombreTitulo ==
    (last.op = "consultar_libros" /\ variante = "doc") =>
        \A i, j \in 1..Len(last.filas) :
            i < j =>
                \/ Rango(last.filas[i].nombre) < Rango(last.filas[j].nombre)
                \/ /\ last.filas[i].nombre = last.filas[j].nombre
                   /\ \/ last.filas[i].titulo = last.filas[j].titulo
                      \/ MenorLex(ClaveTexto(last.filas[i].titulo),
                                  ClaveTexto(last.filas[j].titulo))

\* two books listed against the order in which they were inserted
C25_Witness ==
    /\ last.op = "consultar_libros"
    /\ variante = "doc"
    /\ Len(last.filas) = 2
    /\ Len(libros) = 2
    /\ last.filas[1].titulo = libros[2].titulo
    /\ last.filas[1].titulo # last.filas[2].titulo

\* ---------------------------------------------------------------------------
\* C26  identities round-trip through their string form in the document
\*      variant: the string insertar_autores returned for an author, passed
\*      as author reference to insertar_libros, is stored as a reference
\*      equal to that author's identity, so consultar_libros joins the book
\*      to that author and buscar_libros_por_autor returns it for that
\*      author's name.
C26_IdentidadIdaYVuelta ==
    (variante = "doc" /\ last.op = "insertar_libros") =>
        \A i \in 1..Len(last.entradas) :
            \A x \in 1..Len(pre.autores) :
                last.entradas[i][3] = Str(pre.autores[x].id) =>
                    LET libro == Fila(libros, ObjectId(last.ids[i]))
                        autor == pre.autores[x]
                    IN  /\ libro.autor_id = autor.id
                        /\ \E k \in 1..Len(consultar_libros_doc(autores, libros, seq).filas) :
                              consultar_libros_doc(autores, libros, seq).filas[k]
                              = [titulo |-> libro.titulo, anio |-> libro.anio,
                                 nombre |-> autor.nombre]
                        /\ \E k \in 1..Len(buscar_libros_por_autor_doc(
                                               autores, libros, seq, autor.nombre).filas) :
                              buscar_libros_por_autor_doc(
                                  autores, libros, seq, autor.nombre).filas[k]
                              = [titulo |-> libro.titulo, anio |-> libro.anio]

\* ---------------------------------------------------------------------------
\* C27  the SQL and the document buscar_libros_por_autor are equivalent as
\*      sets: on every catalog, two authors of one name included, and for
\*      every name both return the same set of (title, year) pairs.
C27_MismosLibrosPorNombre ==
    variante \in {"sql", "doc"} =>
        \A nombre \in Nombres :
            LET porSql == buscar_libros_por_autor_sql(autores, libros, seq, nombre).filas
                porDoc == buscar_libros_por_autor_doc(autores, libros, seq, nombre).filas
            IN  {porSql[k] : k \in 1..Len(porSql)} = {porDoc[k] : k \in 1..Len(porDoc)}

\* ---------------------------------------------------------------------------
\* C28  the script of the document variant, whenever it has started MongoDB
\*      through iniciar_mongodb_docker, calls detener_mongodb_docker before
\*      it ends, on the success path and on every error path.
C28_MongoDetenido ==
    (variante = "doc" /\ guion.pc = "done") => guion.mongodb # "started"

C30_SoloElLibroDado ==
    last.op \in {"actualizar_libro", "update_book"} =>
        /\ autores = pre.autores
        /\ Quitar(libros, {last.id}) = Quitar(pre.libros, {last.id})
        /\ ~Existe(pre.libros, last.id) => libros = pre.libros

====
